---- MODULE Spec2Model ----
(***************************************************************************)
(* Model of conferatur.csv.Reader (src/src/conferatur/csv.py): a streaming *)
(* character-level CSV-like reader written as a Python generator.          *)
(*                                                                         *)
(* A Python str is modelled as a sequence of one-character strings, a Line *)
(* as a record of its fields and its lineno attribute.  The generator's    *)
(* local variables are the model's variables; pc is the place where the    *)
(* generator is suspended or running.  None is modelled by 0 for the       *)
(* last_quote_* integers.                                                  *)
(***************************************************************************)
EXTENDS Integers, Sequences, FiniteSets, TLC

\* ---------------------------------------------------------------- bounds
\* longest stream drawn from the whole alphabet
MaxLen == 5
\* longest field content that is wrapped in quotes and used as a stream
MaxContent == 3
\* requests the caller still makes after the generator has finished
MaxStops == 2
\* longest stream read under a dialect that is not built in
MaxCustomLen == 3
\* most calls the caller makes on an emitter
MaxCalls == 5

\* ------------------------------------------------------------ characters
QUOTE == "\""
LF == "\n"
CR == "\r"
TAB == "\t"
SP == " "

\* one representative of each class of character the reader distinguishes
Alphabet == {"a", ",", SP, QUOTE, "#", LF}

\* char in str, for a one-character char (Python's `in` on strings)
InStr(char, str) == \E i \in 1..Len(str) : str[i] = char

\* sub in str for strings of any length (Python's substring test)
IsSubstring(sub, str) ==
    \E i \in 0..(Len(str) - Len(sub)) :
        \A j \in 1..Len(sub) : str[i + j] = sub[j]

\* str.rstrip(chars)
RECURSIVE rstrip(_, _)
rstrip(data, chars) ==
    IF Len(data) > 0 /\ InStr(data[Len(data)], chars)
    THEN rstrip(SubSeq(data, 1, Len(data) - 1), chars)
    ELSE data

\* -------------------------------------------------------------- dialects
DefaultDialect ==
    [ name        |-> "default",
      delimiter   |-> <<",">>,
      quotechar   |-> QUOTE,
      commentchar |-> <<"#">>,
      trimleft    |-> <<SP, TAB, LF, CR>>,
      trimright   |-> <<SP, TAB, LF, CR>> ]

WhitespaceDialect ==
    [ DefaultDialect EXCEPT !.name = "whitespace", !.delimiter = <<SP, TAB>> ]

known_dialects == {DefaultDialect, WhitespaceDialect}

\* subclasses of Dialect a caller can write and pass to Reader
\* the whitespace delimiters listed tab first
TabSpaceDialect ==
    [ DefaultDialect EXCEPT !.name = "tabspace", !.delimiter = <<TAB, SP>> ]

\* a space delimiter, right-trimmed but not left-trimmed (trimleft = None
\* behaves as the empty string in _is_ignore_left)
RightTrimDialect ==
    [ DefaultDialect EXCEPT !.name = "righttrim", !.delimiter = <<SP>>,
                            !.trimleft = <<>> ]

CustomDialects == {TabSpaceDialect, RightTrimDialect}

\* other values a caller can pass as the dialect
PyNone == [py |-> "None"]
PyStr(value) == [py |-> "str", value |-> value]
PyInt(n) == [py |-> "int", n |-> n]
PyClass(name) == [py |-> "class", cls |-> name]
PyInstance(cls) == [py |-> "instance", of |-> cls]

\* a class that derives from Dialect: the records above
IsDialectClass(x) == "delimiter" \in DOMAIN x
IsClass(x) == IsDialectClass(x) \/ x.py = "class"
IsStr(x) == ~IsDialectClass(x) /\ x.py = "str"

MODE_FIRST == 0
MODE_OUTSIDE == 1
MODE_INSIDE == 2
MODE_INSIDE_QUOTED == 3
MODE_INSIDE_QUOTED_QUOTE == 4
MODE_COMMENT == 5

newlinechars == <<LF, CR>>

\* ------------------------------------------------- classification helpers
_trimright(d, data) == rstrip(data, d.trimright)

_is_ignore_left(d, char) == InStr(char, d.trimleft)

_is_comment(d, char) == InStr(char, d.commentchar)

_is_quote(d, char) == char = d.quotechar

_is_delimiter(d, char) == InStr(char, d.delimiter)

\* self._dialect.delimiter in self._dialect.trimright: a substring test
delimiter_is_whitespace(d) == IsSubstring(d.delimiter, d.trimright)

\* ------------------------------------------------------------ construction
Constructed(d) == [out |-> "ok", dialect |-> d, error |-> "none"]
Failed(d, error) == [out |-> "raise", dialect |-> d, error |-> error]

\* Reader.__init__: issubclass() itself raises TypeError when its first
\* argument is not a class
Reader__init__(d) ==
    IF ~IsClass(d) THEN Failed(d, "TypeError")
    ELSE IF ~IsDialectClass(d) THEN Failed(d, "InvalidDialectError")
    ELSE Constructed(d)

\* reader(file, dialect)
reader(d) ==
    IF d = PyNone THEN Reader__init__(DefaultDialect)
    ELSE IF IsStr(d)
    THEN IF ~(\E k \in known_dialects : k.name = d.value)
         THEN Failed(d, "UnknownDialectError")
         ELSE Reader__init__(CHOOSE k \in known_dialects : k.name = d.value)
    ELSE Reader__init__(d)

\* ------------------------------------------------------ values handed out
NoRow == [fields |-> <<>>, lineno |-> 0]
NoErr == [kind |-> "none", line |-> 0, char |-> 0, index |-> 0]

Continue(s) == [s |-> s, out |-> "continue", row |-> NoRow, err |-> NoErr]
Raise(s, kind, l, c, i) ==
    [s |-> s, out |-> "raise", row |-> NoRow,
     err |-> [kind |-> kind, line |-> l, char |-> c, index |-> i]]

\* ------------------------------------------------- field and row assembly
\* next_field() that never right-trims
next_field_notrim(d, s) ==
    [s EXCEPT !.line = Append(s.line, s.field),
              !.field = <<>>,
              !.mode = MODE_OUTSIDE]

\* next_field() that right-trims a quoted field too
next_field_alwaystrim(d, s) ==
    [s EXCEPT !.line = Append(s.line, _trimright(d, s.field)),
              !.field = <<>>,
              !.mode = MODE_OUTSIDE]

\* next_field() that trims the quoted field and not the unquoted one
next_field_swapped(d, s) ==
    LET joined == s.field
        closed == IF s.mode = MODE_INSIDE_QUOTED_QUOTE
                  THEN _trimright(d, joined)
                  ELSE joined
    IN  [s EXCEPT !.line = Append(s.line, closed),
                  !.field = <<>>,
                  !.mode = MODE_OUTSIDE]

\* next_field(): s is the record of the generator's locals
next_field(d, s) ==
    LET joined == s.field
        closed == IF s.mode # MODE_INSIDE_QUOTED_QUOTE
                  THEN _trimright(d, joined)
                  ELSE joined
    IN  [s EXCEPT !.line = Append(s.line, closed),
                  !.field = <<>>,
                  !.mode = MODE_OUTSIDE]

\* yield_line() closing the pending field whatever the mode
yield_line_always(d, s) ==
    LET t == next_field(d, s)
    IN  [s |-> [t EXCEPT !.field = <<>>, !.line = <<>>, !.mode = MODE_FIRST],
         out |-> "yield",
         row |-> [fields |-> t.line, lineno |-> t.cur_line],
         err |-> NoErr]

\* yield_line() dropping the pending field in every mode
yield_line_dropws(d, s) ==
    LET t == IF ~delimiter_is_whitespace(d)
             THEN next_field(d, s)
             ELSE s
    IN  [s |-> [t EXCEPT !.field = <<>>, !.line = <<>>, !.mode = MODE_FIRST],
         out |-> "yield",
         row |-> [fields |-> t.line, lineno |-> t.cur_line],
         err |-> NoErr]

\* yield_line(): the row handed out and the locals left behind
yield_line(d, s) ==
    LET t == IF ~(s.mode = MODE_OUTSIDE /\ delimiter_is_whitespace(d))
             THEN next_field(d, s)
             ELSE s
    IN  [s |-> [t EXCEPT !.field = <<>>, !.line = <<>>, !.mode = MODE_FIRST],
         out |-> "yield",
         row |-> [fields |-> t.line, lineno |-> t.cur_line],
         err |-> NoErr]

\* ------------------------------------------------------ the loop's body
\* the comment branch that a newline does not end
BodyComment_stuck(d, s, char, is_newline) == Continue(s)

\* if mode == MODE_COMMENT
BodyComment(d, s, char, is_newline) ==
    IF is_newline THEN Continue([s EXCEPT !.mode = MODE_FIRST])
    ELSE Continue(s)

\* the branch that takes the comment character in MODE_OUTSIDE as well
BodyOutside_anycomment(d, s, char, is_newline) ==
    IF is_newline
    THEN IF s.mode # MODE_FIRST THEN yield_line(d, s) ELSE Continue(s)
    ELSE IF _is_ignore_left(d, char) THEN Continue(s)
    ELSE IF _is_comment(d, char)
         THEN Continue([s EXCEPT !.mode = MODE_COMMENT])
    ELSE IF _is_quote(d, char)
         THEN Continue([s EXCEPT !.mode = MODE_INSIDE_QUOTED,
                                 !.last_quote_line = s.cur_line,
                                 !.last_quote_char = s.cur_char,
                                 !.last_quote_idx = s.idx])
    ELSE IF _is_delimiter(d, char) THEN Continue(next_field(d, s))
    ELSE Continue([s EXCEPT !.mode = MODE_INSIDE,
                            !.field = Append(s.field, char)])

\* if mode in (MODE_OUTSIDE, MODE_FIRST)
BodyOutside(d, s, char, is_newline) ==
    IF is_newline
    THEN IF s.mode # MODE_FIRST THEN yield_line(d, s) ELSE Continue(s)
    ELSE IF _is_ignore_left(d, char) THEN Continue(s)
    ELSE IF s.mode = MODE_FIRST /\ _is_comment(d, char)
         THEN Continue([s EXCEPT !.mode = MODE_COMMENT])
    ELSE IF _is_quote(d, char)
         THEN Continue([s EXCEPT !.mode = MODE_INSIDE_QUOTED,
                                 !.last_quote_line = s.cur_line,
                                 !.last_quote_char = s.cur_char,
                                 !.last_quote_idx = s.idx])
    ELSE IF _is_delimiter(d, char) THEN Continue(next_field(d, s))
    ELSE Continue([s EXCEPT !.mode = MODE_INSIDE,
                            !.field = Append(s.field, char)])

\* if mode == MODE_INSIDE
BodyInside(d, s, char, is_newline) ==
    IF _is_quote(d, char)
    THEN Raise(s, "UnallowedQuoteError", s.cur_line, s.cur_char, s.idx)
    ELSE IF is_newline THEN yield_line(d, s)
    ELSE IF _is_delimiter(d, char) THEN Continue(next_field(d, s))
    ELSE Continue([s EXCEPT !.field = Append(s.field, char)])

\* the branch that lets any other character pass after a closing quote
BodyQuotedQuote_lenient(d, s, char, is_newline) ==
    IF _is_quote(d, char)
    THEN Continue([s EXCEPT !.field = Append(s.field, char),
                            !.mode = MODE_INSIDE_QUOTED])
    ELSE IF _is_delimiter(d, char) THEN Continue(next_field(d, s))
    ELSE IF is_newline THEN yield_line(d, s)
    ELSE Continue(s)

\* if mode == MODE_INSIDE_QUOTED_QUOTE
BodyQuotedQuote(d, s, char, is_newline) ==
    IF _is_quote(d, char)
    THEN Continue([s EXCEPT !.field = Append(s.field, char),
                            !.mode = MODE_INSIDE_QUOTED])
    ELSE IF _is_delimiter(d, char) THEN Continue(next_field(d, s))
    ELSE IF is_newline THEN yield_line(d, s)
    ELSE Raise(s, "UnallowedQuoteError", s.cur_line, s.cur_char, s.idx)

\* if mode == MODE_INSIDE_QUOTED
BodyQuoted(d, s, char, is_newline) ==
    IF _is_quote(d, char)
    THEN Continue([s EXCEPT !.mode = MODE_INSIDE_QUOTED_QUOTE])
    ELSE Continue([s EXCEPT !.field = Append(s.field, char)])

\* the position tracker without the column reset at a newline
Track_noreset(s, char) ==
    LET is_newline == InStr(char, newlinechars)
    IN  [s EXCEPT !.cur_char = s.cur_char + 1,
                  !.idx = s.idx + 1,
                  !.cur_line = IF is_newline THEN s.cur_line + 1 ELSE s.cur_line]

\* the position tracker at the top of the loop's body
Track(s, char) ==
    LET is_newline == InStr(char, newlinechars)
    IN  [s EXCEPT !.cur_char = IF is_newline THEN 0 ELSE s.cur_char + 1,
                  !.idx = s.idx + 1,
                  !.cur_line = IF is_newline THEN s.cur_line + 1 ELSE s.cur_line]

\* one pass of `for char in readchar`
LoopBody(d, s0, char) ==
    LET is_newline == InStr(char, newlinechars)
        s == Track(s0, char)
    IN  CASE s.mode = MODE_COMMENT -> BodyComment(d, s, char, is_newline)
          [] s.mode \in {MODE_OUTSIDE, MODE_FIRST} -> BodyOutside(d, s, char, is_newline)
          [] s.mode = MODE_INSIDE -> BodyInside(d, s, char, is_newline)
          [] s.mode = MODE_INSIDE_QUOTED_QUOTE -> BodyQuotedQuote(d, s, char, is_newline)
          [] s.mode = MODE_INSIDE_QUOTED -> BodyQuoted(d, s, char, is_newline)

\* the code after the loop without the flush of a row that ends in a delimiter
AfterLoop_nooutside(d, s) ==
    IF s.mode = MODE_INSIDE_QUOTED
    THEN Raise(s, "UnclosedQuoteError",
               s.last_quote_line, s.last_quote_char, s.last_quote_idx)
    ELSE IF s.mode \in {MODE_INSIDE_QUOTED_QUOTE, MODE_INSIDE}
    THEN yield_line(d, s)
    ELSE [s |-> s, out |-> "return", row |-> NoRow, err |-> NoErr]

\* the code after the loop flushing a row in every mode but the quoted one
AfterLoop_flushall(d, s) ==
    IF s.mode = MODE_INSIDE_QUOTED
    THEN Raise(s, "UnclosedQuoteError",
               s.last_quote_line, s.last_quote_char, s.last_quote_idx)
    ELSE yield_line(d, s)

\* the code after the loop reporting an unclosed quote where the stream ends
AfterLoop_eofpos(d, s) ==
    IF s.mode = MODE_INSIDE_QUOTED
    THEN Raise(s, "UnclosedQuoteError", s.cur_line, s.cur_char, s.idx)
    ELSE IF s.mode \in {MODE_INSIDE_QUOTED_QUOTE, MODE_OUTSIDE, MODE_INSIDE}
    THEN yield_line(d, s)
    ELSE [s |-> s, out |-> "return", row |-> NoRow, err |-> NoErr]

\* the code after the loop, reached when the stream is exhausted
AfterLoop(d, s) ==
    IF s.mode = MODE_INSIDE_QUOTED
    THEN Raise(s, "UnclosedQuoteError",
               s.last_quote_line, s.last_quote_char, s.last_quote_idx)
    ELSE IF s.mode \in {MODE_INSIDE_QUOTED_QUOTE, MODE_OUTSIDE, MODE_INSIDE}
    THEN yield_line(d, s)
    ELSE [s |-> s, out |-> "return", row |-> NoRow, err |-> NoErr]

\* the locals of __iter__ when the generator starts
InitLocals ==
    [ mode |-> MODE_FIRST, field |-> <<>>, line |-> <<>>,
      cur_line |-> 1, cur_char |-> 0, idx |-> 0,
      last_quote_line |-> 0, last_quote_char |-> 0, last_quote_idx |-> 0 ]

\* ---------------------------------------------------------------- streams
Strings(n) == UNION {[1..k -> Alphabet] : k \in 0..n}

\* a field's content written as a quoted field: every inner quote doubled
RECURSIVE DoubleQuotes(_)
DoubleQuotes(content) ==
    IF content = <<>> THEN <<>>
    ELSE (IF Head(content) = QUOTE THEN <<QUOTE, QUOTE>> ELSE <<Head(content)>>)
         \o DoubleQuotes(Tail(content))

Wrap(content) == <<QUOTE>> \o DoubleQuotes(content) \o <<QUOTE>>

Contents == Strings(MaxContent)

\* the streams the spec's testable properties name
Ex_TwoRows == <<"a", ",", "b", LF, "c", ",", "d", LF>>
Ex_Spaces == <<"a", SP, SP, SP, "b", LF>>
Ex_Unclosed == <<"a", ",", QUOTE, "b", LF>>
Ex_Unallowed == <<"a", QUOTE, "b", ",", "c", LF>>
Ex_NoNewline == <<"a", ",", "b">>
Ex_Comment == <<"#", ",", QUOTE, LF, "a", LF>>
Examples == {Ex_TwoRows, Ex_Spaces, Ex_Unclosed, Ex_Unallowed, Ex_NoNewline, Ex_Comment}

Streams == Strings(MaxLen) \cup {Wrap(c) : c \in Contents} \cup Examples

\* the streams read under the dialects that are not built in
CustomStreams == Strings(MaxCustomLen)

\* the values passed as the dialect besides the Dialect subclasses
OtherArgs ==
    { PyNone, PyStr("default"), PyStr("whitespace"), PyStr("excel"),
      PyClass("dict"), PyInt(42), PyInstance("DefaultDialect") }

\* ------------------------------------------------------------------ state
VARIABLES
    file,             \* the characters of the stream (self._file)
    pos,              \* how many characters have been read from the stream
    dialect,          \* the dialect argument, then self._dialect
    failure,          \* the exception reader() raised, or "none"
    pc,               \* where the generator of __iter__ stands
    mode, field, line, cur_line, cur_char, idx,
    last_quote_line, last_quote_char, last_quote_idx,
    results,          \* what each request of the caller got, in order
    emitter,          \* the emitter factory.create() made: "json" or "csv"
    json_line,        \* Json._line
    csv_writer,       \* Csv._writer: 0 for None, else the k-th writer made
    csv_made,         \* how many csv writers have been made
    stdout,           \* the chunks printed to sys.stdout, in order
    calls,            \* the calls the caller made on the emitter, in order
    exc               \* the exception the last of these calls raised, or "none"

locals == <<mode, field, line, cur_line, cur_char, idx,
            last_quote_line, last_quote_char, last_quote_idx>>
rvars == <<file, pos, dialect, failure, pc, locals, results>>
ovars == <<emitter, json_line, csv_writer, csv_made, stdout, calls, exc>>
vars == <<rvars, ovars>>

Locals ==
    [ mode |-> mode, field |-> field, line |-> line,
      cur_line |-> cur_line, cur_char |-> cur_char, idx |-> idx,
      last_quote_line |-> last_quote_line,
      last_quote_char |-> last_quote_char,
      last_quote_idx |-> last_quote_idx ]

SetLocals(s) ==
    /\ mode' = s.mode
    /\ field' = s.field
    /\ line' = s.line
    /\ cur_line' = s.cur_line
    /\ cur_char' = s.cur_char
    /\ idx' = s.idx
    /\ last_quote_line' = s.last_quote_line
    /\ last_quote_char' = s.last_quote_char
    /\ last_quote_idx' = s.last_quote_idx

RowResult(row) == [kind |-> "row", row |-> row, err |-> NoErr]
ErrResult(err) == [kind |-> "error", row |-> NoRow, err |-> err]
StopResult == [kind |-> "stop", row |-> NoRow, err |-> NoErr]

\* Json._line = None
NoLine == 0 - 1

\* no emitter is in use
OutputIdle ==
    /\ emitter = "none"
    /\ json_line = NoLine
    /\ csv_writer = 0
    /\ csv_made = 0
    /\ stdout = <<>>
    /\ calls = <<>>
    /\ exc = "none"

\* reader(file, dialect) is about to be called
Init ==
    /\ \/ dialect \in known_dialects /\ file \in Streams
       \/ dialect \in CustomDialects /\ file \in CustomStreams
       \/ dialect \in OtherArgs /\ file \in Examples
    /\ failure = "none"
    /\ OutputIdle
    /\ pos = 0
    /\ pc = "new"
    /\ mode = InitLocals.mode
    /\ field = InitLocals.field
    /\ line = InitLocals.line
    /\ cur_line = InitLocals.cur_line
    /\ cur_char = InitLocals.cur_char
    /\ idx = InitLocals.idx
    /\ last_quote_line = InitLocals.last_quote_line
    /\ last_quote_char = InitLocals.last_quote_char
    /\ last_quote_idx = InitLocals.last_quote_idx
    /\ results = <<>>

\* ---------------------------------------------------------------- actions
\* a raise that does not end the generator: the loop goes on
Deliver_swallow(r, yielded_at) ==
    /\ SetLocals(r.s)
    /\ CASE r.out = "continue" -> /\ pc' = "loop"
                                  /\ results' = results
         [] r.out = "yield"    -> /\ pc' = yielded_at
                                  /\ results' = Append(results, RowResult(r.row))
         [] r.out = "raise"    -> /\ pc' = "loop"
                                  /\ results' = Append(results, ErrResult(r.err))
         [] r.out = "return"   -> /\ pc' = "closed"
                                  /\ results' = Append(results, StopResult)

\* what one pass of the loop, or the code after it, does to the generator:
\* `continue` keeps it running, a yield suspends it with the row handed to
\* the caller, a raise or a return ends it
Deliver(r, yielded_at) ==
    /\ SetLocals(r.s)
    /\ CASE r.out = "continue" -> /\ pc' = "loop"
                                  /\ results' = results
         [] r.out = "yield"    -> /\ pc' = yielded_at
                                  /\ results' = Append(results, RowResult(r.row))
         [] r.out = "raise"    -> /\ pc' = "closed"
                                  /\ results' = Append(results, ErrResult(r.err))
         [] r.out = "return"   -> /\ pc' = "closed"
                                  /\ results' = Append(results, StopResult)

\* the loop reading one character ahead of the one it works on
ReadChar_lookahead ==
    /\ pc = "loop"
    /\ pos < Len(file)
    /\ pos' = IF pos + 2 <= Len(file) THEN pos + 2 ELSE pos + 1
    /\ Deliver(LoopBody(dialect, Locals, file[pos + 1]), "yield_loop")
    /\ UNCHANGED <<file, dialect, failure, ovars>>

\* for char in readchar: the next character is read and the body runs
ReadChar ==
    /\ pc = "loop"
    /\ pos < Len(file)
    /\ pos' = pos + 1
    /\ Deliver(LoopBody(dialect, Locals, file[pos + 1]), "yield_loop")
    /\ UNCHANGED <<file, dialect, failure, ovars>>

\* the branch of the body that the mode selects
ReadComment ==
    /\ mode = MODE_COMMENT
    /\ ReadChar

ReadOutside ==
    /\ mode \in {MODE_OUTSIDE, MODE_FIRST}
    /\ ReadChar

ReadInside ==
    /\ mode = MODE_INSIDE
    /\ ReadChar

ReadQuotedQuote ==
    /\ mode = MODE_INSIDE_QUOTED_QUOTE
    /\ ReadChar

ReadQuoted ==
    /\ mode = MODE_INSIDE_QUOTED
    /\ ReadChar

\* read(1) returns '': the loop ends and the code after it runs
EndOfStream ==
    /\ pc = "loop"
    /\ pos = Len(file)
    /\ Deliver(AfterLoop(dialect, Locals), "yield_tail")
    /\ UNCHANGED <<file, dialect, failure, pos, ovars>>

\* reader(file, dialect): the dialect is resolved and the Reader made, or
\* the call raises
Construct ==
    /\ pc = "new"
    /\ LET r == reader(dialect)
       IN  /\ dialect' = r.dialect
           /\ failure' = r.error
           /\ pc' = IF r.out = "ok" THEN "start" ELSE "failed"
    /\ UNCHANGED <<file, pos, locals, results, ovars>>

\* the caller's first next(): the generator runs up to the loop
NextStart ==
    /\ pc = "start"
    /\ pc' = "loop"
    /\ UNCHANGED <<file, pos, dialect, failure, locals, results, ovars>>

\* next() on a generator suspended at a yield inside the loop: `continue`
NextResume ==
    /\ pc = "yield_loop"
    /\ pc' = "loop"
    /\ UNCHANGED <<file, pos, dialect, failure, locals, results, ovars>>

\* next() on a generator suspended at the yield after the loop: it returns
NextAfterTail ==
    /\ pc = "yield_tail"
    /\ pc' = "closed"
    /\ results' = Append(results, StopResult)
    /\ UNCHANGED <<file, pos, dialect, failure, locals, ovars>>

Stops == Cardinality({i \in 1..Len(results) : results[i].kind = "stop"})

\* next() on a generator that returned or raised: StopIteration
NextClosed ==
    /\ pc = "closed"
    /\ Stops < MaxStops
    /\ results' = Append(results, StopResult)
    /\ UNCHANGED <<file, pos, dialect, failure, pc, locals, ovars>>

Next ==
    \/ Construct
    \/ NextStart
    \/ NextResume
    \/ NextAfterTail
    \/ NextClosed
    \/ ReadComment
    \/ ReadOutside
    \/ ReadInside
    \/ ReadQuotedQuote
    \/ ReadQuoted
    \/ EndOfStream

Spec == Init /\ [][Next]_vars

\* ------------------------------------------------------- whole-stream view
\* the loop folded over chars from the locals s: the locals it ends with,
\* the results it produced and whether it raised
RECURSIVE ScanFrom(_, _, _, _)
ScanFrom(d, s, chars, acc) ==
    IF chars = <<>>
    THEN [s |-> s, results |-> acc, raised |-> FALSE]
    ELSE LET r == LoopBody(d, s, Head(chars))
         IN  CASE r.out = "raise" ->
                    [s |-> r.s, results |-> Append(acc, ErrResult(r.err)), raised |-> TRUE]
               [] r.out = "yield" ->
                    ScanFrom(d, r.s, Tail(chars), Append(acc, RowResult(r.row)))
               [] OTHER -> ScanFrom(d, r.s, Tail(chars), acc)

Scan(d, chars) == ScanFrom(d, InitLocals, chars, <<>>)

\* list(Reader(file, d)) as far as it gets: the rows, then the error if any
Run(d, chars) ==
    LET sc == Scan(d, chars)
        r == AfterLoop(d, sc.s)
    IN  IF sc.raised THEN sc.results
        ELSE CASE r.out = "raise" -> Append(sc.results, ErrResult(r.err))
               [] r.out = "yield" -> Append(sc.results, RowResult(r.row))
               [] OTHER -> sc.results

TypeOK ==
    /\ pos \in 0..Len(file)
    /\ pc \in {"new", "failed", "start", "loop", "yield_loop", "yield_tail", "closed"}
    /\ mode \in 0..5

\* ------------------------------------------------------------ emitters
PyFloat(repr) == [py |-> "float", repr |-> repr]

\* the (title, result) pairs handed to an emitter
Data ==
    { <<PyStr("title"), PyStr("result")>>,
      <<PyStr("somethingelse"), PyFloat("0.42")>> }

\* str(value)
str(v) == IF v.py = "str" THEN v.value ELSE v.repr

\* Schema.dumps(value): the JSON text of a value
en(v) == IF v.py = "str" THEN QUOTE \o v.value \o QUOTE ELSE v.repr

\* print(text, end=end): the chunk written to sys.stdout
print(text, end) == text \o end

\* csv.writer(sys.stdout, None).writerow(row): the chunk written
writerow(row) == str(row[1]) \o "," \o str(row[2]) \o CR \o LF

\* the state of a Json object, and of a Csv object
JsonState == [line |-> json_line, out |-> stdout, exc |-> "none"]
CsvState == [writer |-> csv_writer, made |-> csv_made, out |-> stdout, exc |-> "none"]

\* Json.__enter__ that opens again
Json__enter___reopen(s) ==
    [s EXCEPT !.out = Append(s.out, print("{", LF)), !.line = 0]

Json__enter__(s) ==
    IF s.line # NoLine
    THEN [s EXCEPT !.exc = "ValueError: Already open"]
    ELSE [s EXCEPT !.out = Append(s.out, print("{", LF)), !.line = 0]

Json__exit__(s) ==
    [s EXCEPT !.line = NoLine, !.out = Append(s.out, print(LF \o "}", LF))]

\* Json.result that puts the separator behind each entry
Json_result_sepafter(s, title, result) ==
    IF s.line = NoLine
    THEN [s EXCEPT !.exc = "TypeError"]
    ELSE [s EXCEPT !.line = s.line + 1,
                   !.out = Append(Append(s.out,
                              print(TAB \o en(title) \o ": " \o en(result), "")),
                              print(",", LF))]

\* Json.result: None != 0 holds, so a closed Json prints the separator
\* before None += 1 raises
Json_result(s, title, result) ==
    LET out1 == IF s.line # 0 THEN Append(s.out, print(",", LF)) ELSE s.out
    IN  IF s.line = NoLine
        THEN [s EXCEPT !.out = out1, !.exc = "TypeError"]
        ELSE [s EXCEPT !.line = s.line + 1,
                       !.out = Append(out1,
                                 print(TAB \o en(title) \o ": " \o en(result), ""))]

Csv__enter__(s) ==
    IF s.writer # 0
    THEN [s EXCEPT !.exc = "ValueError: Already open"]
    ELSE [s EXCEPT !.writer = s.made + 1, !.made = s.made + 1]

Csv__exit__(s) == [s EXCEPT !.writer = 0]

Csv_result(s, title, result) ==
    IF s.writer = 0
    THEN [s EXCEPT !.exc = "AttributeError"]
    ELSE [s EXCEPT !.out = Append(s.out, writerow(<<title, result>>))]

Called(op, args) == [op |-> op, args |-> args]

\* the call op(args) on the Json object ends in state s
JsonCall(op, args, s) ==
    /\ Len(calls) < MaxCalls
    /\ calls' = Append(calls, Called(op, args))
    /\ json_line' = s.line
    /\ stdout' = s.out
    /\ exc' = s.exc
    /\ UNCHANGED <<emitter, csv_writer, csv_made, rvars>>

\* the call op(args) on the Csv object ends in state s
CsvCall(op, args, s) ==
    /\ Len(calls) < MaxCalls
    /\ calls' = Append(calls, Called(op, args))
    /\ csv_writer' = s.writer
    /\ csv_made' = s.made
    /\ stdout' = s.out
    /\ exc' = s.exc
    /\ UNCHANGED <<emitter, json_line, rvars>>

\* with instance: ... (also inside a with block of the same instance)
JsonEnter ==
    /\ emitter = "json"
    /\ JsonCall("enter", <<>>, Json__enter__(JsonState))

\* the end of a with block; a block exists only after an enter that returned
JsonExit ==
    /\ emitter = "json"
    /\ json_line # NoLine
    /\ JsonCall("exit", <<>>, Json__exit__(JsonState))

JsonResult ==
    /\ emitter = "json"
    /\ \E d \in Data :
        JsonCall("result", d, Json_result(JsonState, d[1], d[2]))

CsvEnter ==
    /\ emitter = "csv"
    /\ CsvCall("enter", <<>>, Csv__enter__(CsvState))

CsvExit ==
    /\ emitter = "csv"
    /\ csv_writer # 0
    /\ CsvCall("exit", <<>>, Csv__exit__(CsvState))

CsvResult ==
    /\ emitter = "csv"
    /\ \E d \in Data :
        CsvCall("result", d, Csv_result(CsvState, d[1], d[2]))

\* factory.create(kind) has made an emitter; no reader is in use
InitOutput ==
    /\ emitter \in {"json", "csv"}
    /\ json_line = NoLine
    /\ csv_writer = 0
    /\ csv_made = 0
    /\ stdout = <<>>
    /\ calls = <<>>
    /\ exc = "none"
    /\ file = <<>>
    /\ dialect = PyNone
    /\ failure = "none"
    /\ pos = 0
    /\ pc = "new"
    /\ mode = InitLocals.mode
    /\ field = InitLocals.field
    /\ line = InitLocals.line
    /\ cur_line = InitLocals.cur_line
    /\ cur_char = InitLocals.cur_char
    /\ idx = InitLocals.idx
    /\ last_quote_line = InitLocals.last_quote_line
    /\ last_quote_char = InitLocals.last_quote_char
    /\ last_quote_idx = InitLocals.last_quote_idx
    /\ results = <<>>

NextOutput ==
    \/ JsonEnter
    \/ JsonExit
    \/ JsonResult
    \/ CsvEnter
    \/ CsvExit
    \/ CsvResult

SpecOutput == InitOutput /\ [][NextOutput]_vars


\* ------------------------------------------------------ reading the stream
\* what the text of the stream says, independently of the reader's counters
IsNewline(char) == char \in {LF, CR}

Max(S) == CHOOSE x \in S : \A y \in S : y <= x

\* the 1-based physical line, column and offset of the i-th character
LineOf(chars, i) == 1 + Cardinality({j \in 1..(i - 1) : IsNewline(chars[j])})
ColOf(chars, i) == i - Max({0} \cup {j \in 1..(i - 1) : IsNewline(chars[j])})

HasChar(chars, char) == \E i \in 1..Len(chars) : chars[i] = char

\* the results of a given kind, in order
OfKind(res, kind) == SelectSeq(res, LAMBDA r : r.kind = kind)
Rows(res) == [i \in 1..Len(OfKind(res, "row")) |-> OfKind(res, "row")[i].row]
Errors(res) == [i \in 1..Len(OfKind(res, "error")) |-> OfKind(res, "error")[i].err]
FieldsOf(rows) == [i \in 1..Len(rows) |-> rows[i].fields]
LineNosOf(rows) == [i \in 1..Len(rows) |-> rows[i].lineno]

\* the physical lines of a stream: the text between newline characters
RECURSIVE SplitLines(_, _)
SplitLines(chars, cur) ==
    IF chars = <<>> THEN <<cur>>
    ELSE IF IsNewline(Head(chars)) THEN <<cur>> \o SplitLines(Tail(chars), <<>>)
    ELSE SplitLines(Tail(chars), Append(cur, Head(chars)))

PhysicalLines(chars) == SplitLines(chars, <<>>)

RECURSIVE lstrip(_, _)
lstrip(data, chars) ==
    IF Len(data) > 0 /\ InStr(Head(data), chars)
    THEN lstrip(Tail(data), chars)
    ELSE data

\* a line of an unquoted stream starts a row when something other than
\* left-trim characters is on it and that is no comment
StartsRow(d, l) ==
    LET t == lstrip(l, d.trimleft)
    IN  t # <<>> /\ ~InStr(t[1], d.commentchar)

\* the numbers of the physical lines on which a row begins
RowLines(d, chars) ==
    LET ls == PhysicalLines(chars)
    IN  SelectSeq([i \in 1..Len(ls) |-> i], LAMBDA i : StartsRow(d, ls[i]))

\* ------------------------------------------------------------------ claims

\* C1: every row carries the 1-based number of the physical line on which
\* it began; "a,b\nc,d\n" under the default dialect gives ["a","b"] with
\* line number 1 and ["c","d"] with line number 2.
C1_RowLineNumbers ==
    pc = "closed" =>
        /\ ~HasChar(file, QUOTE) => LineNosOf(Rows(results)) = RowLines(dialect, file)
        /\ (file = Ex_TwoRows /\ dialect = DefaultDialect) =>
              Rows(results) = << [fields |-> <<<<"a">>, <<"b">>>>, lineno |-> 1],
                                 [fields |-> <<<<"c">>, <<"d">>>>, lineno |-> 2] >>

\* C2: under the whitespace dialect a run of delimiters separates once and
\* leading or trailing delimiters add no field: no row of a stream without
\* quote characters holds an empty field, and "a   b\n" yields the one row
\* ["a","b"].
C2_WhitespaceRuns ==
    dialect = WhitespaceDialect =>
        /\ ~HasChar(file, QUOTE) =>
              \A i \in 1..Len(Rows(results)) :
                  \A k \in 1..Len(Rows(results)[i].fields) :
                      Rows(results)[i].fields[k] # <<>>
        /\ (file = Ex_Spaces /\ pc = "closed") =>
              FieldsOf(Rows(results)) = << <<<<"a">>, <<"b">>>> >>

\* a row was delivered for a line that ends in a delimiter
C2_Witness ==
    /\ dialect = WhitespaceDialect
    /\ file = <<SP, "a", SP, LF>>
    /\ pc = "closed"
    /\ FieldsOf(Rows(results)) = << <<<<"a">>>> >>

\* the mode the reader is in after the first n characters of the stream
ModeAfter(n) == Scan(dialect, SubSeq(file, 1, n)).s.mode

\* the quote that opened the quoted field the reader is in after n
\* characters: the last quote it met outside a field
OpeningQuote(n) ==
    Max({i \in 1..n : /\ file[i] = QUOTE
                      /\ ModeAfter(i - 1) \in {MODE_FIRST, MODE_OUTSIDE}})

\* the stream is exhausted and the generator is about to find that out
AtEnd == pc = "loop" /\ pos = Len(file)

\* C3: the stream ending inside a quoted field raises UnclosedQuoteError
\* with the line, column and index of the quote that opened the field, and
\* no row is yielded for the unfinished line.
C3_UnclosedQuote ==
    [][ (AtEnd /\ mode = MODE_INSIDE_QUOTED) =>
          LET q == OpeningQuote(pos)
          IN  /\ pc' = "closed"
              /\ results' = Append(results,
                    ErrResult([kind |-> "UnclosedQuoteError",
                               line |-> LineOf(file, q),
                               char |-> ColOf(file, q),
                               index |-> q]))
              /\ (file = Ex_Unclosed /\ dialect = DefaultDialect) =>
                    results' = <<ErrResult([kind |-> "UnclosedQuoteError",
                                            line |-> 1, char |-> 3, index |-> 3])>>
      ]_vars

\* an unclosed quote was reported at a quote that is not the stream's last
\* character and not on its first line
C3_Witness ==
    /\ pc = "closed"
    /\ mode = MODE_INSIDE_QUOTED
    /\ Len(Errors(results)) = 1
    /\ Errors(results)[1].kind = "UnclosedQuoteError"
    /\ Errors(results)[1].index < Len(file)
    /\ Errors(results)[1].line > 1

\* C4: a quote met inside an unquoted field raises UnallowedQuoteError with
\* the line, column and index the position tracker holds for that quote,
\* which are those of the quote in the stream; in "a\"b,c\n" that is line 1,
\* second character.
C4_UnallowedQuote ==
    [][ (pc = "loop" /\ pos < Len(file) /\ mode = MODE_INSIDE /\ file[pos + 1] = QUOTE) =>
          LET e == [kind |-> "UnallowedQuoteError",
                    line |-> LineOf(file, pos + 1),
                    char |-> ColOf(file, pos + 1),
                    index |-> pos + 1]
          IN  /\ pc' = "closed"
              /\ results' = Append(results, ErrResult(e))
              /\ <<cur_line', cur_char', idx'>> = <<e.line, e.char, e.index>>
              /\ (file = Ex_Unallowed /\ dialect = DefaultDialect) =>
                    results' = <<ErrResult([kind |-> "UnallowedQuoteError",
                                            line |-> 1, char |-> 2, index |-> 2])>>
      ]_vars

\* an unallowed quote was reported on a line after the first
C4_Witness ==
    /\ pc = "closed"
    /\ mode = MODE_INSIDE
    /\ Len(Errors(results)) = 1
    /\ Errors(results)[1].kind = "UnallowedQuoteError"
    /\ Errors(results)[1].line = 2
    /\ Errors(results)[1].char = 2

\* C5: the stream ending without a final newline in MODE_INSIDE,
\* MODE_OUTSIDE or MODE_INSIDE_QUOTED_QUOTE yields exactly one final row
\* holding the pending fields (the row a final newline would have ended),
\* and the next request signals exhaustion; "a,b" yields ["a","b"].
C5_FinalRow ==
    [][ /\ (AtEnd /\ mode \in {MODE_INSIDE, MODE_OUTSIDE, MODE_INSIDE_QUOTED_QUOTE}) =>
              /\ pc' = "yield_tail"
              /\ Len(results') = Len(results) + 1
              /\ SubSeq(results', 1, Len(results)) = results
              /\ LET r == results'[Len(results')]
                 IN  /\ r.kind = "row"
                     /\ r.row.fields = LoopBody(dialect, Locals, LF).row.fields
                     /\ SubSeq(r.row.fields, 1, Len(line)) = line
                     /\ Len(r.row.fields) <= Len(line) + 1
              /\ (file = Ex_NoNewline /\ dialect = DefaultDialect) =>
                    FieldsOf(Rows(results')) = << <<<<"a">>, <<"b">>>> >>
        /\ pc = "yield_tail" =>
              /\ pc' = "closed"
              /\ results' = Append(results, StopResult)
              /\ pos' = pos
      ]_vars

\* a final row was flushed for a line that ends in a delimiter at the end
\* of the stream, and exhaustion was signalled after it
C5_Witness ==
    /\ pc = "closed"
    /\ dialect = DefaultDialect
    /\ file = <<"a", ",">>
    /\ results = <<RowResult([fields |-> <<<<"a">>, <<>>>>, lineno |-> 1]), StopResult>>

\* the stream has only blank lines and comment lines
OnlyBlankOrComment(d, chars) ==
    \A i \in 1..Len(PhysicalLines(chars)) : ~StartsRow(d, PhysicalLines(chars)[i])

\* C6: empty input yields no row and no error; a stream that ends in
\* MODE_FIRST or MODE_COMMENT yields nothing further and raises nothing.
C6_NothingPending ==
    /\ [](pc = "closed" /\ (file = <<>> \/ OnlyBlankOrComment(dialect, file)) =>
             \A i \in 1..Len(results) : results[i].kind = "stop")
    /\ [][ (AtEnd /\ mode \in {MODE_FIRST, MODE_COMMENT}) =>
              /\ pc' = "closed"
              /\ results' = Append(results, StopResult)
         ]_vars

\* a stream of a blank line and an unfinished comment line came to its end
\* after a row had been delivered
C6_Witness ==
    /\ pc = "closed"
    /\ mode = MODE_COMMENT
    /\ Len(Rows(results)) = 1
    /\ results[Len(results)].kind = "stop"
    /\ Errors(results) = <<>>

\* the end of the physical line that starts at i: its newline, or one past
\* the end of the stream
EndOfLine(chars, i) ==
    IF \E j \in i..Len(chars) : IsNewline(chars[j])
    THEN CHOOSE j \in i..Len(chars) :
            /\ IsNewline(chars[j])
            /\ \A k \in i..(j - 1) : ~IsNewline(chars[k])
    ELSE Len(chars) + 1

\* the stream with the line that starts at i emptied, its newline kept
Blanked(chars, i) ==
    SubSeq(chars, 1, i - 1) \o SubSeq(chars, EndOfLine(chars, i), Len(chars))

\* an error without its offset in the stream
KindAt(e) == [kind |-> e.kind, line |-> e.line, char |-> e.char]
KindsAt(errs) == [i \in 1..Len(errs) |-> KindAt(errs[i])]

\* the reader meets the i-th character at the start of a line, in MODE_FIRST
AtLineStart(i) ==
    /\ i = 1 \/ IsNewline(file[i - 1])
    /\ ModeAfter(i - 1) = MODE_FIRST

\* C7: a line whose first character is the comment character gives no row
\* and no error whatever follows on it, and the rows (and errors) after it
\* are those, with the same line numbers, of the stream in which that line
\* is empty.
C7_CommentLine ==
    /\ [](pc = "closed" =>
            \A i \in 1..Len(file) :
                (InStr(file[i], dialect.commentchar) /\ AtLineStart(i)) =>
                    LET other == Run(dialect, Blanked(file, i))
                    IN  /\ Rows(OfKind(results, "row")) = Rows(other)
                        /\ KindsAt(Errors(results)) = KindsAt(Errors(other)))
    /\ [][ (pc = "loop" /\ pos < Len(file) /\ mode = MODE_COMMENT) =>
              /\ results' = results
              /\ pc' = "loop"
              /\ mode' = IF IsNewline(file[pos + 1]) THEN MODE_FIRST ELSE MODE_COMMENT
         ]_vars

\* a comment line holding a delimiter and an unbalanced quote was passed
\* and the row of the line after it was delivered
C7_Witness ==
    /\ pc = "closed"
    /\ file = Ex_Comment
    /\ FieldsOf(Rows(results)) = << <<<<"a">>>> >>
    /\ Errors(results) = <<>>

\* line split at every delimiter character
RECURSIVE SplitOn(_, _, _)
SplitOn(l, delims, cur) ==
    IF l = <<>> THEN <<cur>>
    ELSE IF InStr(Head(l), delims) THEN <<cur>> \o SplitOn(Tail(l), delims, <<>>)
    ELSE SplitOn(Tail(l), delims, Append(cur, Head(l)))

Trim(d, piece) == rstrip(lstrip(piece, d.trimleft), d.trimright)

\* the pieces of a line, split on the delimiter characters and trimmed
SplitTrim(d, l) ==
    LET ps == SplitOn(l, d.delimiter, <<>>)
    IN  [k \in 1..Len(ps) |-> Trim(d, ps[k])]

NonEmpty(pieces) == SelectSeq(pieces, LAMBDA x : x # <<>>)

\* the lines of a stream for which a row is yielded
RowTexts(d, chars) == SelectSeq(PhysicalLines(chars), LAMBDA l : StartsRow(d, l))

Plain(chars) == \A i \in 1..Len(chars) : chars[i] \notin {QUOTE, "#"}

\* C8 as stated: without quote and comment characters, under each built-in
\* dialect, the fields yielded for a line are the line split on the
\* delimiter characters with each piece trimmed.
C8_SplitTrim ==
    (pc = "closed" /\ dialect \in known_dialects /\ Plain(file)) =>
        LET ls == RowTexts(dialect, file)
        IN  FieldsOf(Rows(results)) = [i \in 1..Len(ls) |-> SplitTrim(dialect, ls[i])]

\* C8 amended: without quote and comment characters, a row is yielded for
\* every line that holds more than left-trim characters and for no other;
\* under the default dialect its fields are the line split on the delimiter
\* with each piece trimmed, under the whitespace dialect they are the
\* non-empty ones among these pieces.
C8_SplitTrimAmended ==
    (pc = "closed" /\ dialect \in known_dialects /\ Plain(file)) =>
        LET ls == RowTexts(dialect, file)
        IN  /\ Errors(results) = <<>>
            /\ FieldsOf(Rows(results)) =
                 [i \in 1..Len(ls) |->
                    IF dialect = WhitespaceDialect
                    THEN NonEmpty(SplitTrim(dialect, ls[i]))
                    ELSE SplitTrim(dialect, ls[i])]

\* a row of two fields was yielded for a line with a run of delimiters
\* (whitespace dialect) or with padded and empty pieces (default dialect)
C8_Witness ==
    /\ pc = "closed"
    /\ Plain(file)
    /\ \/ dialect = WhitespaceDialect /\ file = Ex_Spaces
       \/ dialect = DefaultDialect /\ file = <<SP, ",", "a", SP>>
    /\ Len(Rows(results)) = 1
    /\ Len(Rows(results)[1].fields) = 2

\* every pair of adjacent quotes replaced by one quote
RECURSIVE Undouble(_)
Undouble(chars) ==
    IF chars = <<>> THEN <<>>
    ELSE IF Len(chars) >= 2 /\ chars[1] = QUOTE /\ chars[2] = QUOTE
    THEN <<QUOTE>> \o Undouble(SubSeq(chars, 3, Len(chars)))
    ELSE <<Head(chars)>> \o Undouble(Tail(chars))

\* C9: a field content of ordinary, delimiter, quote, newline and trim
\* characters, wrapped in quotes with every inner quote doubled, parses to a
\* single field equal to the content.  (A stream is Wrap(c) for some c
\* exactly when it is Wrap of its inside undoubled.)
C9_QuotedRoundTrip ==
    (pc = "closed" /\ Len(file) >= 2) =>
        LET c == Undouble(SubSeq(file, 2, Len(file) - 1))
        IN  file = Wrap(c) =>
              /\ FieldsOf(Rows(results)) = << <<c>> >>
              /\ Errors(results) = <<>>

\* a content of a trim character, a quote and a newline came back as the
\* only field of the only row
C9_Witness ==
    /\ pc = "closed"
    /\ file = Wrap(<<SP, QUOTE, LF>>)
    /\ FieldsOf(Rows(results)) = << << <<SP, QUOTE, LF>> >> >>

\* C10: a content error is fatal: the rows completed before the offending
\* character have been delivered, the error is raised by the step that reads
\* the offending character (or finds the stream exhausted), nothing is read
\* and no row is delivered after it, and later requests signal exhaustion.
C10_FatalError ==
    /\ [](\A k \in 1..Len(results) :
            results[k].kind = "error" =>
                /\ pc = "closed"
                /\ \A j \in 1..(k - 1) : results[j].kind = "row"
                /\ \A j \in (k + 1)..Len(results) : results[j].kind = "stop"
                /\ results[k].err.kind = "UnallowedQuoteError" => pos = results[k].err.index
                /\ results[k].err.kind = "UnclosedQuoteError" => pos = Len(file)
                /\ Rows(results) = Rows(Scan(dialect, SubSeq(file, 1, pos)).results))
    /\ [][ /\ Errors(results) # <<>> =>
                /\ pos' = pos
                /\ pc' = "closed"
                /\ results' = Append(results, StopResult)
           /\ Len(Errors(results')) > Len(Errors(results)) =>
                /\ pc = "loop"
                /\ pos' = pos + 1 \/ AtEnd
                /\ results' = Append(results, results'[Len(results')])
         ]_vars

\* an error was raised after a row had been delivered and with the stream
\* not read to its end, and a later request got the exhaustion signal
C10_Witness ==
    /\ Len(results) = 3
    /\ results[1].kind = "row"
    /\ results[2].kind = "error"
    /\ results[3].kind = "stop"
    /\ pos < Len(file)

\* C11: reader(stream, dialect) takes an omitted dialect as the default
\* dialect and "default" and "whitespace" as the built-in dialects; any other
\* string fails with UnknownDialectError and any value that is not a Dialect,
\* a class or a plain value, with InvalidDialectError, with nothing read.
\* (An instance of a Dialect class is left out of the statement.)
C11_Construction ==
    [][ pc = "new" =>
          /\ pos' = 0
          /\ CASE dialect = PyNone ->
                    pc' = "start" /\ dialect' = DefaultDialect /\ failure' = "none"
               [] dialect = PyStr("default") ->
                    pc' = "start" /\ dialect' = DefaultDialect /\ failure' = "none"
               [] dialect = PyStr("whitespace") ->
                    pc' = "start" /\ dialect' = WhitespaceDialect /\ failure' = "none"
               [] IsStr(dialect) /\ dialect.value \notin {"default", "whitespace"} ->
                    pc' = "failed" /\ failure' = "UnknownDialectError"
               [] IsDialectClass(dialect) ->
                    pc' = "start" /\ dialect' = dialect /\ failure' = "none"
               [] ~IsDialectClass(dialect) /\ dialect.py \in {"class", "int"} ->
                    pc' = "failed" /\ failure' = "InvalidDialectError"
               [] OTHER -> TRUE
      ]_vars

\* the characters of the stream that make up the rows delivered so far
RowsOfPrefix(n) == Rows(Scan(dialect, SubSeq(file, 1, n)).results)

\* C12: rows are produced lazily, with no lookahead: when a row is handed
\* over, the characters read are those up to and including the one that
\* ended the row (the whole stream for a row flushed at its end); the
\* characters are read in order one at a time, each worked on before the
\* next is read, and nothing is read between two requests.
C12_LazyNoLookahead ==
    /\ [](pc \in {"loop", "yield_loop", "yield_tail", "closed"} => idx = pos)
    /\ [](pc = "yield_loop" =>
            /\ pos >= 1 /\ IsNewline(file[pos])
            /\ results[Len(results)].kind = "row"
            /\ Rows(results) = RowsOfPrefix(pos)
            /\ Len(RowsOfPrefix(pos - 1)) = Len(Rows(results)) - 1)
    /\ [](pc = "yield_tail" =>
            /\ pos = Len(file)
            /\ results[Len(results)].kind = "row"
            /\ Len(RowsOfPrefix(pos)) = Len(Rows(results)) - 1)
    /\ [][ /\ pos' \in {pos, pos + 1}
           /\ pc # "loop" => pos' = pos
           /\ Len(Rows(results')) > Len(Rows(results)) =>
                pc = "loop" /\ pc' \in {"yield_loop", "yield_tail"}
         ]_vars

\* a row was handed over with the rest of the stream still unread
C12_Witness ==
    /\ pc = "yield_loop"
    /\ Len(Rows(results)) = 1
    /\ pos + 2 <= Len(file)

\* every delimiter character is a right-trim character
DelimiterInTrimRight(d) ==
    \A i \in 1..Len(d.delimiter) : InStr(d.delimiter[i], d.trimright)

\* the row handed over by the step, when the step hands one over
NewRow == results'[Len(results')].row

\* C13: for any dialect whose delimiter characters are all right-trim
\* characters, in whatever order they are listed, a row flushed in
\* MODE_OUTSIDE drops the pending trailing field; for any other dialect the
\* pending field is closed, so the default dialect gives ["a",""] for "a,\n".
C13_RowFlush ==
    [][ (pc = "loop" /\ mode = MODE_OUTSIDE
           /\ (pos = Len(file) \/ IsNewline(file[pos + 1]))) =>
          /\ Len(results') = Len(results) + 1
          /\ results'[Len(results')].kind = "row"
          /\ IF DelimiterInTrimRight(dialect)
             THEN NewRow.fields = line
             ELSE NewRow.fields = Append(line, <<>>)
          /\ (dialect = DefaultDialect /\ file = <<"a", ",", LF>>) =>
                NewRow.fields = << <<"a">>, <<>> >>
      ]_vars

\* C14: whitespace-collapsing follows from the delimiter and right-trim sets
\* alone: when the delimiter characters are a subset of the right-trim
\* characters, a delimiter that follows a delimiter produces no empty field,
\* and for any other dialect it closes an empty field; the dialect, and so
\* the property, does not change during a parse.
C14_Collapsing ==
    [][ /\ (pc = "loop" /\ mode = MODE_OUTSIDE /\ pos >= 1 /\ pos < Len(file)
              /\ _is_delimiter(dialect, file[pos])
              /\ _is_delimiter(dialect, file[pos + 1])) =>
             IF DelimiterInTrimRight(dialect)
             THEN line' = line
             ELSE line' = Append(line, <<>>)
        /\ pc \notin {"new", "failed"} => dialect' = dialect
      ]_vars

\* the call made by the step
IsCall(op) == calls' = Append(calls, Called(op, <<>>))

\* C15: entering a Json or Csv emitter that is already open raises
\* ValueError "Already open" and leaves the open state untouched: the Json
\* entry counter and the Csv writer are not reset and nothing is printed.
C15_AlreadyOpen ==
    [][ /\ (emitter = "json" /\ json_line # NoLine /\ IsCall("enter")) =>
              /\ exc' = "ValueError: Already open"
              /\ json_line' = json_line
              /\ stdout' = stdout
        /\ (emitter = "csv" /\ csv_writer # 0 /\ IsCall("enter")) =>
              /\ exc' = "ValueError: Already open"
              /\ csv_writer' = csv_writer
              /\ csv_made' = csv_made
              /\ stdout' = stdout
      ]_vars

\* an open Json emitter that holds an entry was entered again
C15_Witness ==
    /\ emitter = "json"
    /\ json_line = 1
    /\ Len(calls) = 3
    /\ calls[3].op = "enter"
    /\ exc = "ValueError: Already open"

\* the calls are one with block: an enter, results, and perhaps the exit
OneBlock ==
    /\ Len(calls) >= 2
    /\ calls[1].op = "enter"
    /\ \A i \in 2..(Len(calls) - 1) : calls[i].op = "result"
    /\ calls[Len(calls)].op \in {"result", "exit"}

IsResult(c) == c.op = "result"

\* the (title, result) pairs of the result calls, in call order
Entries == SelectSeq(calls, IsResult)

\* the text of one entry
EntryText(c) == TAB \o en(c.args[1]) \o ": " \o en(c.args[2])

\* the entries with a separator between each two
Separated(es) ==
    [k \in 1..(2 * Len(es) - 1) |->
        IF k % 2 = 1 THEN EntryText(es[(k + 1) \div 2]) ELSE "," \o LF]

RECURSIVE Text(_)
Text(chunks) ==
    IF chunks = <<>> THEN "" ELSE chunks[1] \o Text(Tail(chunks))

SeparatorsIn(chunks) == {i \in 1..Len(chunks) : chunks[i] = "," \o LF}

\* C16: a Json emitter used in one with block with n >= 1 result calls
\* prints the opening brace, the n entries in call order with n-1
\* separators, one before every entry but the first, and the closing brace
\* on exit; while the block is open the counter is the number of entries.
C16_JsonOutput ==
    (emitter = "json" /\ OneBlock /\ Len(Entries) >= 1) =>
        LET closed == calls[Len(calls)].op = "exit"
            n == Len(Entries)
        IN  /\ stdout = <<"{" \o LF>> \o Separated(Entries)
                          \o (IF closed THEN <<LF \o "}" \o LF>> ELSE <<>>)
            /\ Cardinality(SeparatorsIn(stdout)) = n - 1
            /\ stdout[2] # "," \o LF
            /\ stdout[2 * n] # "," \o LF
            /\ json_line = IF closed THEN NoLine ELSE n
            /\ exc = "none"
            /\ (closed /\ n = 2 /\ Entries[1].args[1].value = "title"
                  /\ Entries[2].args[1].value = "somethingelse") =>
                 Text(stdout) =
                   "{\n\t\"title\": \"result\",\n\t\"somethingelse\": 0.42\n}\n"

\* a with block with three entries has been left
C16_Witness ==
    /\ emitter = "json"
    /\ OneBlock
    /\ Len(Entries) = 3
    /\ Entries[1] # Entries[2]
    /\ calls[Len(calls)].op = "exit"

\* the last delimiter or newline among the first n characters, 0 if none
LastBoundary(n) ==
    Max({0} \cup {j \in 1..n : _is_delimiter(dialect, file[j]) \/ IsNewline(file[j])})

\* the characters of the stream since that boundary
Segment(n) == SubSeq(file, LastBoundary(n) + 1, n)

\* the characters between the opening quote of the quoted field and its
\* closing quote, which is the n-th character
Quoted(n) == SubSeq(file, OpeningQuote(n) + 1, n - 1)

\* C17: closing a field trims asymmetrically. An unquoted field closes as
\* its characters in the stream without the left-trim characters before the
\* first one and without trailing right-trim characters, interior ones kept;
\* a field closed after its closing quote is the quoted text, verbatim. At a
\* delimiter the field is appended to the row, the buffer is reset and the
\* mode is MODE_OUTSIDE; at a newline the row is yielded with that field last.
C17_FieldClose ==
    [][ (pc = "loop" /\ pos < Len(file)) =>
          LET char == file[pos + 1]
              unquoted == Trim(dialect, Segment(pos))
              verbatim == Undouble(Quoted(pos))
          IN  /\ (mode = MODE_INSIDE /\ _is_delimiter(dialect, char)) =>
                    /\ line' = Append(line, unquoted)
                    /\ field' = <<>>
                    /\ mode' = MODE_OUTSIDE
              /\ (mode = MODE_INSIDE_QUOTED_QUOTE /\ _is_delimiter(dialect, char)) =>
                    /\ line' = Append(line, verbatim)
                    /\ field' = <<>>
                    /\ mode' = MODE_OUTSIDE
              /\ (mode = MODE_INSIDE /\ IsNewline(char)) =>
                    /\ NewRow.fields = Append(line, unquoted)
                    /\ field' = <<>>
              /\ (mode = MODE_INSIDE_QUOTED_QUOTE /\ IsNewline(char)) =>
                    /\ NewRow.fields = Append(line, verbatim)
                    /\ field' = <<>>
      ]_vars

\* a quoted field with a trim character at its edge was closed verbatim, or
\* an unquoted one closed without the trim characters around it
C17_Witness ==
    /\ dialect = DefaultDialect
    /\ mode = MODE_OUTSIDE
    /\ field = <<>>
    /\ pos = 5
    /\ \/ file = <<QUOTE, "a", SP, QUOTE, ",">> /\ line = << <<"a", SP>> >>
       \/ file = <<SP, "a", SP, "a", ",">> /\ line = << <<"a", SP, "a">> >>

\* C18: in MODE_INSIDE_QUOTED_QUOTE the next character decides: a quote
\* appends one quote and returns to MODE_INSIDE_QUOTED; a delimiter closes
\* the field and goes to MODE_OUTSIDE; a newline closes the field and yields
\* the row; every other character, a trim character that is no delimiter
\* included, raises UnallowedQuoteError with its line, column and index.
C18_AfterQuote ==
    [][ (pc = "loop" /\ pos < Len(file) /\ mode = MODE_INSIDE_QUOTED_QUOTE) =>
          LET char == file[pos + 1]
              e == [kind |-> "UnallowedQuoteError",
                    line |-> LineOf(file, pos + 1),
                    char |-> ColOf(file, pos + 1),
                    index |-> pos + 1]
          IN  CASE char = QUOTE ->
                     /\ field' = Append(field, QUOTE)
                     /\ mode' = MODE_INSIDE_QUOTED
                     /\ line' = line
                     /\ results' = results
                     /\ pc' = "loop"
                [] char # QUOTE /\ _is_delimiter(dialect, char) ->
                     /\ line' = Append(line, field)
                     /\ field' = <<>>
                     /\ mode' = MODE_OUTSIDE
                     /\ results' = results
                     /\ pc' = "loop"
                [] char # QUOTE /\ ~_is_delimiter(dialect, char) /\ IsNewline(char) ->
                     /\ Len(results') = Len(results) + 1
                     /\ results'[Len(results')].kind = "row"
                     /\ NewRow.fields = Append(line, field)
                     /\ pc' = "yield_loop"
                [] OTHER ->
                     /\ results' = Append(results, ErrResult(e))
                     /\ pc' = "closed"
      ]_vars

\* a trim character that is no delimiter followed a closing quote and was
\* reported on the second line
C18_Witness ==
    /\ dialect = DefaultDialect
    /\ pc = "closed"
    /\ pos >= 2
    /\ file[pos] = SP
    /\ file[pos - 1] = QUOTE
    /\ Len(Errors(results)) = 1
    /\ Errors(results)[1].kind = "UnallowedQuoteError"
    /\ Errors(results)[1].line = 2
    /\ Errors(results)[1].index = pos

\* the last newline among the first n characters, 0 if none
LineStart(n) == Max({0} \cup {j \in 1..n : IsNewline(file[j])})

\* the characters of the current line among the first n characters
LineText(n) == SubSeq(file, LineStart(n) + 1, n)

\* the next character is the comment character
CommentNext == pos < Len(file) /\ _is_comment(dialect, file[pos + 1])

\* the comment character is appended to the field the reader is in or starts
AppendedAsContent ==
    /\ field' = Append(field, file[pos + 1])
    /\ mode' = IF mode = MODE_INSIDE_QUOTED THEN MODE_INSIDE_QUOTED ELSE MODE_INSIDE
    /\ line' = line
    /\ results' = results
    /\ pc' = "loop"

\* C19 as stated: the comment character starts a comment only as the first
\* character of a line: MODE_COMMENT is entered only from MODE_FIRST on the
\* line's first character, and a comment character anywhere else on a line
\* (after leading characters, after a delimiter, in an unquoted or a quoted
\* field) is appended to a field and does not suppress the rest of the line.
C19_CommentFirstChar ==
    [][ pc = "loop" =>
          /\ (mode' = MODE_COMMENT /\ mode # MODE_COMMENT) =>
                /\ mode = MODE_FIRST
                /\ CommentNext
                /\ LineText(pos) = <<>>
          /\ (CommentNext /\ LineText(pos) # <<>>
                /\ mode \in {MODE_FIRST, MODE_OUTSIDE, MODE_INSIDE, MODE_INSIDE_QUOTED}) =>
                AppendedAsContent
      ]_vars

\* C19 amended: the comment character starts a comment only while the
\* reader is at the start of a line, that is in MODE_FIRST, with nothing
\* but left-trim characters before it on the line; there it always does.
\* Met in MODE_OUTSIDE, MODE_INSIDE or MODE_INSIDE_QUOTED it is appended to
\* a field and does not suppress the rest of the line; right after a
\* closing quote it raises UnallowedQuoteError; in a comment it is skipped.
C19_CommentAtLineStart ==
    [][ pc = "loop" =>
          /\ (mode' = MODE_COMMENT /\ mode # MODE_COMMENT) =>
                /\ mode = MODE_FIRST
                /\ CommentNext
                /\ lstrip(LineText(pos), dialect.trimleft) = <<>>
          /\ (CommentNext /\ mode = MODE_FIRST) =>
                /\ mode' = MODE_COMMENT
                /\ field' = field /\ line' = line /\ results' = results
          /\ (CommentNext /\ mode \in {MODE_OUTSIDE, MODE_INSIDE, MODE_INSIDE_QUOTED}) =>
                AppendedAsContent
          /\ (CommentNext /\ mode = MODE_INSIDE_QUOTED_QUOTE) =>
                /\ pc' = "closed"
                /\ results'[Len(results')].kind = "error"
                /\ results'[Len(results')].err.kind = "UnallowedQuoteError"
          /\ (CommentNext /\ mode = MODE_COMMENT) =>
                /\ mode' = MODE_COMMENT
                /\ field' = field /\ line' = line /\ results' = results
      ]_vars

\* a comment was started behind a leading left-trim character, and on
\* another line the comment character went into a field
C19_Witness ==
    /\ dialect = DefaultDialect
    /\ file = <<"a", "#", LF, SP, "#">>
    /\ pos = 5
    /\ mode = MODE_COMMENT
    /\ Len(Rows(results)) = 1
    /\ Rows(results)[1].fields = << <<"a", "#">> >>

\* C20: under both built-in dialects every row yielded has at least one
\* field: a line the reader starts at its beginning and that is blank, made
\* of trim characters only or a comment gives no row, neither at its newline
\* nor at the end of the stream, and a row whose trailing field was dropped
\* at the flush still has a field.
C20_RowsNotEmpty ==
    /\ [](dialect \in known_dialects =>
            \A i \in 1..Len(Rows(results)) : Len(Rows(results)[i].fields) >= 1)
    /\ [][ (dialect \in known_dialects /\ pc = "loop"
              /\ (pos = Len(file) \/ IsNewline(file[pos + 1]))
              /\ ModeAfter(LineStart(pos)) = MODE_FIRST
              /\ ~StartsRow(dialect, LineText(pos))) =>
                Rows(results') = Rows(results)
         ]_vars

\* under the whitespace dialect a line of trim characters gave no row and
\* the row of a line that ends in a delimiter has its one field
C20_Witness ==
    /\ dialect = WhitespaceDialect
    /\ file = <<SP, LF, "a", SP, LF>>
    /\ pc = "closed"
    /\ Len(Rows(results)) = 1
    /\ Rows(results)[1].fields = << <<"a">> >>

====
